---- MODULE Spec2Model ----
(***************************************************************************)
(* Titre-prediction kernels of src/src/boosting_functions.cpp.             *)
(*                                                                         *)
(* Arrays are functions over 0..n-1, as in the C++ source, so that the     *)
(* flattened row-major index  m * number_strains + s  is modelled as       *)
(* written.  Every double of the source is modelled by an integer: the     *)
(* inputs are drawn from small sets of integers, on which the double       *)
(* arithmetic of the source (+, -, *, <, >=) is exact.                     *)
(*                                                                         *)
(* A behaviour is one caller working on one set of inputs: it calls one of *)
(* the kernels on its two buffers, again and again, and may zero the       *)
(* buffers between two calls.                                              *)
(***************************************************************************)
EXTENDS Integers, Sequences, FiniteSets, TLC

\* ---------------------------------------------------------------- bounds
MaxInf == 3       \* infection slots of an individual
NumStrains == 2   \* strains of the antigenic map
NRows == 3        \* measurement rows (samples) of an individual
NDraws == 2       \* blood draws of an individual (fast path)
MaxOps == 3       \* operations (kernel calls, buffer resets) in one behaviour

Slots == 0 .. (MaxInf - 1)
Rows == 0 .. (NRows - 1)
Draws == 0 .. (NDraws - 1)
Strains == 0 .. (NumStrains - 1)
Cells == 0 .. (NumStrains * NumStrains - 1)

\* ------------------------------------------------------------ the kernels

\* Mutant of MAX: the floor forgotten.
MaxNoFloor(a, b) == b

\* #define MAX(a,b) ((a) < (b) ? (b) : (a))
MAX(a, b) == IF a < b THEN b ELSE a

\* Mutant of IsActive: a zero entry of the mask counted as an infection.
IsActiveNonNegative(m) == m >= 0

\* if(masked_infection_history[i] > 0)
IsActive(m) == m > 0

\* ---- multiple_infection_base_boosting ----------------------------------

\* Mutant of BaseIndex: the matrix read column-major.
BaseIndexTransposed(inp, i, k) ==
  inp.infection_map_indices[i] * inp.number_strains + inp.measurement_map_indices[k]

\* index = measurement_map_indices[k] * number_strains + inf_map_index
BaseIndex(inp, i, k) ==
  inp.measurement_map_indices[k] * inp.number_strains + inp.infection_map_indices[i]

\* predicted_titres[k] += senior * ((mu * long[index]) + (mu_short * short[index]) * wane)
BaseAdd(pt, inp, i, k) ==
  LET index == BaseIndex(inp, i, k)
  IN [pt EXCEPT ![k] = pt[k] + inp.seniority[i] *
        ((inp.theta.mu * inp.antigenic_map_long[index]) +
         (inp.theta.mu_short * inp.antigenic_map_short[index]) * inp.waning[i])]

\* for(int k = 0; k < n_samples; ++k)
RECURSIVE BaseSamples(_, _, _, _)
BaseSamples(pt, inp, i, k) ==
  IF k < inp.n_samples
  THEN BaseSamples(BaseAdd(pt, inp, i, k), inp, i, k + 1)
  ELSE pt

\* for(int i = 0; i < max_infections; ++i)
RECURSIVE BaseSlots(_, _, _)
BaseSlots(pt, inp, i) ==
  IF i < inp.max_infections
  THEN BaseSlots(IF IsActive(inp.masked_infection_history[i])
                 THEN BaseSamples(pt, inp, i, 0)
                 ELSE pt,
                 inp, i + 1)
  ELSE pt

multiple_infection_base_boosting(pt, inp) == BaseSlots(pt, inp, 0)

\* ---- multiple_infection_strain_dependent -------------------------------

\* mu = mus[boosting_vec_indices[inf_map_index]]
StrainMu(inp, i) == inp.mus[inp.boosting_vec_indices[inp.infection_map_indices[i]]]

\* predicted_titres[k] += MAX(0, 1.0 - tau * n_inf) * ((mu * long[..]) + (mu_short * short[..]) * wane)
StrainAdd(pt, inp, i, k) ==
  LET n_inf == inp.cumu_infection_history[i] - 1
      index == inp.measurement_map_indices[k] * inp.number_strains
                 + inp.infection_map_indices[i]
  IN [pt EXCEPT ![k] = pt[k] + MAX(0, 1 - inp.theta.tau * n_inf) *
        ((StrainMu(inp, i) * inp.antigenic_map_long[index]) +
         (inp.theta.mu_short * inp.antigenic_map_short[index]) * inp.waning[i])]

\* for(int k = 0; k < n_samples; ++k), n_samples = measurement_map_indices.size()
RECURSIVE StrainSamples(_, _, _, _)
StrainSamples(pt, inp, i, k) ==
  IF k < NRows
  THEN StrainSamples(StrainAdd(pt, inp, i, k), inp, i, k + 1)
  ELSE pt

\* for(int i = 0; i < max_infections; ++i), max_infections = cumu_infection_history.size()
RECURSIVE StrainSlots(_, _, _)
StrainSlots(pt, inp, i) ==
  IF i < MaxInf
  THEN StrainSlots(IF IsActive(inp.masked_infection_history[i])
                   THEN StrainSamples(pt, inp, i, 0)
                   ELSE pt,
                   inp, i + 1)
  ELSE pt

multiple_infection_strain_dependent(pt, inp) == StrainSlots(pt, inp, 0)

\* ---- multiple_infection_titre_dependent_boost --------------------------

\* MAX(0, 1.0 - tau*(cumu_infection_history[ii] - 1.0)): antigenic seniority
TitreSeniority(inp, ii) == MAX(0, 1 - inp.theta.tau * (inp.cumu_infection_history[ii] - 1))

\* Mutant of TitreScale: the sign of the suppression flipped.
TitreScaleSignFlipped(b, monitored, gradient, boost_limit) ==
  IF monitored >= boost_limit
  THEN b * (1 + gradient * boost_limit)
  ELSE b * (1 + gradient * monitored)

\* Mutant of TitreScale: the ceiling forgotten.
TitreScaleNoCeiling(b, monitored, gradient, boost_limit) ==
  b * (1 - gradient * monitored)

\* if(monitored >= boost_limit) b * (1 - gradient * boost_limit)
\* else                         b * (1 - gradient * monitored)
TitreScale(b, monitored, gradient, boost_limit) ==
  IF monitored >= boost_limit
  THEN b * (1 - gradient * boost_limit)
  ELSE b * (1 - gradient * monitored)

\* One pass of the body of the scan over prior slots ii (lines 117-138):
\* the boost that prior slot ii adds to the running monitored titre of slot i.
PhaseABoost(mt, inp, i, ii) ==
  LET index == inp.infection_map_indices[i] * inp.number_strains
                 + inp.infection_map_indices[ii]
      long0 == TitreSeniority(inp, ii) * (inp.theta.mu * inp.antigenic_map_long[index])
      short0 == TitreSeniority(inp, ii) * (inp.theta.mu_short * inp.antigenic_map_short[index])
      long_boost == MAX(0, TitreScale(long0, mt[ii], inp.theta.gradient, inp.theta.boost_limit))
      short_boost == MAX(0, TitreScale(short0, mt[ii], inp.theta.gradient, inp.theta.boost_limit))
  IN long_boost + short_boost *
       MAX(0, 1 - inp.theta.wane * (inp.infection_times[i] - inp.infection_times[ii]))

\* Mutant of PhaseAWrite: the running total added to the slot, not stored in it.
PhaseAWriteAccumulating(mt, i, ii, monitored_titre) ==
  [mt EXCEPT ![i] = mt[i] + monitored_titre]

\* Mutant of PhaseAWrite: the slot being scanned written, not the slot scanned for.
PhaseAWriteScanned(mt, i, ii, monitored_titre) == [mt EXCEPT ![ii] = monitored_titre]

\* monitored_titres[i] = monitored_titre  (line 139, inside the scan)
PhaseAWrite(mt, i, ii, monitored_titre) == [mt EXCEPT ![i] = monitored_titre]

\* for(int ii = i - 1; ii >= 0; --ii): st = [mt, monitored_titre]
RECURSIVE PhaseAScan(_, _, _, _)
PhaseAScan(st, inp, i, ii) ==
  IF ii >= 0
  THEN LET run == IF IsActive(inp.masked_infection_history[ii])
                  THEN st.monitored_titre + PhaseABoost(st.mt, inp, i, ii)
                  ELSE st.monitored_titre
       IN PhaseAScan([mt |-> PhaseAWrite(st.mt, i, ii, run), monitored_titre |-> run],
                     inp, i, ii - 1)
  ELSE st

\* The local monitored_titre on entry to the scan of slot i: the source sets it
\* once, at its declaration (line 92), and not again per slot.
PhaseAStart(monitored_titre) == monitored_titre

PhaseA(st, inp, i) ==
  PhaseAScan([st EXCEPT !.monitored_titre = PhaseAStart(st.monitored_titre)], inp, i, i - 1)

\* Body of the loop over samples k (lines 143-163)
PhaseBAdd(pt, mt, inp, i, k) ==
  LET n_inf == inp.cumu_infection_history[i] - 1
      index == inp.measurement_map_indices[k] * inp.number_strains
                 + inp.infection_map_indices[i]
      long0 == MAX(0, 1 - inp.theta.tau * n_inf) * (inp.theta.mu * inp.antigenic_map_long[index])
      short0 == MAX(0, 1 - inp.theta.tau * n_inf) *
                  (inp.theta.mu_short * inp.antigenic_map_short[index])
      long_boost == MAX(0, TitreScale(long0, mt[i], inp.theta.gradient, inp.theta.boost_limit))
      short_boost == MAX(0, TitreScale(short0, mt[i], inp.theta.gradient, inp.theta.boost_limit))
  IN [pt EXCEPT ![k] = pt[k] + (long_boost + short_boost * inp.waning[i])]

\* for(int k = 0; k < n_samples; ++k)
RECURSIVE PhaseB(_, _, _, _, _)
PhaseB(pt, mt, inp, i, k) ==
  IF k < NRows
  THEN PhaseB(PhaseBAdd(pt, mt, inp, i, k), mt, inp, i, k + 1)
  ELSE pt

\* for(int i = 0; i < max_infections; ++i): st = [pt, mt, monitored_titre]
RECURSIVE TitreSlots(_, _, _)
TitreSlots(st, inp, i) ==
  IF i < MaxInf
  THEN IF IsActive(inp.masked_infection_history[i])
       THEN LET a == PhaseA([mt |-> st.mt, monitored_titre |-> st.monitored_titre], inp, i)
            IN TitreSlots([pt |-> PhaseB(st.pt, a.mt, inp, i, 0),
                           mt |-> a.mt,
                           monitored_titre |-> a.monitored_titre],
                          inp, i + 1)
       ELSE TitreSlots(st, inp, i + 1)
  ELSE st

\* double monitored_titre = 0;  (line 92)
multiple_infection_titre_dependent_boost(pt, mt, inp) ==
  LET r == TitreSlots([pt |-> pt, mt |-> mt, monitored_titre |-> 0], inp, 0)
  IN [pt |-> r.pt, mt |-> r.mt]

\* ---- add_multiple_infections_boost -------------------------------------

\* if (titre_dependent_boosting) ... else if (additional_arguments.isNotNull()) ... else ...
add_multiple_infections_boost(pt, mt, inp) ==
  IF inp.titre_dependent_boosting
  THEN multiple_infection_titre_dependent_boost(pt, mt, inp)
  ELSE IF inp.additional_arguments_not_null
       THEN [pt |-> multiple_infection_strain_dependent(pt, inp), mt |-> mt]
       ELSE [pt |-> multiple_infection_base_boosting(pt, inp), mt |-> mt]

\* ---- titre_data_fast_individual_base -----------------------------------

\* if(sampling_time >= infection_times[x])
FastGate(sampling_time, infection_time) == sampling_time >= infection_time

\* predicted_titres[tmp_titre_index + k] += seniority * ((mu*long[index]) + (mu_short*short[index])*wane_amount)
FastAdd(pt, inp, tmp_titre_index, k, x, seniority, wane_amount) ==
  LET index == inp.measurement_map_indices[tmp_titre_index + k] * inp.number_strains
                 + inp.infection_map_indices[x]
  IN [pt EXCEPT ![tmp_titre_index + k] = pt[tmp_titre_index + k] + seniority *
        ((inp.theta.mu * inp.antigenic_map_long[index]) +
         (inp.theta.mu_short * inp.antigenic_map_short[index]) * wane_amount)]

\* for(int k = 0; k < n_titres; ++k)
RECURSIVE FastRows(_, _, _, _, _, _, _, _)
FastRows(pt, inp, tmp_titre_index, n_titres, k, x, seniority, wane_amount) ==
  IF k < n_titres
  THEN FastRows(FastAdd(pt, inp, tmp_titre_index, k, x, seniority, wane_amount),
                inp, tmp_titre_index, n_titres, k + 1, x, seniority, wane_amount)
  ELSE pt

\* Mutant of FastCount: the counter advanced outside the gate.
FastCountEvery(n_inf, passed) == n_inf + 1

\* ++n_inf, inside the gate (line 287)
FastCount(n_inf, passed) == IF passed THEN n_inf + 1 ELSE n_inf

\* for(int x = 0; x < max_infections; ++x): st = [pt, n_inf]
RECURSIVE FastInfections(_, _, _, _, _, _)
FastInfections(st, inp, sampling_time, tmp_titre_index, n_titres, x) ==
  IF x < MaxInf
  THEN LET passed == FastGate(sampling_time, inp.infection_times[x])
           time == sampling_time - inp.infection_times[x]
           wane_amount == MAX(0, 1 - (inp.theta.wane * time))
           seniority == MAX(0, 1 - inp.theta.tau * (st.n_inf - 1))
       IN FastInfections(
            [pt |-> IF passed
                    THEN FastRows(st.pt, inp, tmp_titre_index, n_titres, 0, x,
                                  seniority, wane_amount)
                    ELSE st.pt,
             n_inf |-> FastCount(st.n_inf, passed)],
            inp, sampling_time, tmp_titre_index, n_titres, x + 1)
  ELSE st

\* n_inf = 1.0 at the top of every draw (line 268)
FastDrawStart == 1

\* for(int j = index_in_samples; j <= end_index_in_samples; ++j)
RECURSIVE FastDraws(_, _, _, _)
FastDraws(pt, inp, j, start_index_in_data) ==
  IF j <= inp.end_index_in_samples
  THEN LET n_titres == inp.nrows_per_blood_sample[j]
           end_index_in_data == start_index_in_data + n_titres
           r == FastInfections([pt |-> pt, n_inf |-> FastDrawStart], inp,
                               inp.sample_times[j], start_index_in_data, n_titres, 0)
       IN FastDraws(r.pt, inp, j + 1, end_index_in_data)
  ELSE pt

titre_data_fast_individual_base(pt, inp) ==
  FastDraws(pt, inp, inp.index_in_samples, inp.start_index_in_data1)

\* ------------------------------------------------------- the caller's inputs

\* A flattened square matrix, row-major: weight d on the diagonal, u above it
\* (measured strain < infecting strain) and l below it.
Map(d, u, l) ==
  [c \in Cells |->
     LET m == c \div NumStrains
         s == c % NumStrains
     IN IF m = s THEN d ELSE IF m < s THEN u ELSE l]

\* A per-slot vector alternating a, b, a, ...
Alt(a, b) == [i \in Slots |-> IF i % 2 = 0 THEN a ELSE b]

\* Slot i is an infection with strain (i * step) mod number_strains.
StrainSeq(step) == [i \in Slots |-> (i * step) % NumStrains]

Masks == [Slots -> {0, 1}]
ZeroPredicted == [k \in Rows |-> 0]
ZeroMonitored == [i \in Slots |-> 0]

Theta(mu, mu_short, tau, gradient, boost_limit, wane) ==
  [mu |-> mu, mu_short |-> mu_short, tau |-> tau,
   gradient |-> gradient, boost_limit |-> boost_limit, wane |-> wane]

\* One set of inputs; call names the kernel the caller uses on them.
Default ==
  [call |-> "base",
   theta |-> Theta(1, 1, 0, 1, 2, 0),
   infection_times |-> [i \in Slots |-> i],
   cumu_infection_history |-> [i \in Slots |-> i + 1],
   masked_infection_history |-> [i \in Slots |-> 1],
   infection_map_indices |-> StrainSeq(1),
   measurement_map_indices |-> [k \in Rows |-> k % NumStrains],
   antigenic_map_long |-> Map(1, 0, 1),
   antigenic_map_short |-> Map(1, 1, 1),
   waning |-> Alt(1, 0),
   seniority |-> Alt(1, 2),
   number_strains |-> NumStrains,
   n_samples |-> NRows,
   max_infections |-> MaxInf,
   mus |-> [g \in 0 .. 1 |-> g + 1],
   boosting_vec_indices |-> [s \in Strains |-> s % 2],
   titre_dependent_boosting |-> FALSE,
   additional_arguments_not_null |-> FALSE,
   sample_times |-> [j \in Draws |-> j + 1],
   index_in_samples |-> 0,
   end_index_in_samples |-> NDraws - 1,
   start_index_in_data1 |-> 0,
   nrows_per_blood_sample |-> [j \in Draws |-> 1]]

LongMaps == {Map(1, u, l) : u \in {0, 1}, l \in {0, 1}}
ShortMaps == {Map(0, 0, 0), Map(1, 1, 0)}

\* BaseBoostModel called directly
BaseInputs ==
  {[Default EXCEPT !.call = "base",
                   !.masked_infection_history = a,
                   !.infection_map_indices = StrainSeq(step),
                   !.antigenic_map_long = lm,
                   !.antigenic_map_short = sm,
                   !.theta = Theta(mm[1], mm[2], 0, 0, 0, 0),
                   !.waning = w,
                   !.seniority = sen,
                   !.max_infections = mi] :
     a \in Masks, step \in Strains, lm \in LongMaps, sm \in ShortMaps,
     mm \in {<<2, 0>>, <<1, 1>>}, w \in {Alt(1, 0)},
     sen \in {Alt(1, 2), Alt(0, 1)}, mi \in {MaxInf - 1, MaxInf}}

\* StrainDependentBoostModel called directly
StrainInputs ==
  {[Default EXCEPT !.call = "strain",
                   !.masked_infection_history = a,
                   !.infection_map_indices = StrainSeq(step),
                   !.antigenic_map_long = lm,
                   !.boosting_vec_indices = bvi,
                   !.theta = Theta(0, ms, tau, 0, 0, 0),
                   !.waning = w] :
     a \in Masks, step \in Strains, lm \in LongMaps,
     bvi \in {[s \in Strains |-> s % 2], [s \in Strains |-> 0]},
     ms \in {0, 1}, tau \in {-1, 0, 1}, w \in {Alt(1, 0)}}

\* TitreDependentBoostModel called directly: the titre feedback and its ceiling
TitreFeedbackInputs ==
  {[Default EXCEPT !.call = "titre",
                   !.masked_infection_history = a,
                   !.infection_map_indices = StrainSeq(step),
                   !.antigenic_map_long = lm,
                   !.theta = Theta(1, 1, 0, gradient, boost_limit, 0)] :
     a \in Masks, step \in Strains, lm \in {Map(1, 0, 0), Map(1, 0, 1)},
     gradient \in {-1, 0, 1}, boost_limit \in {0, 1, 2}}

\* TitreDependentBoostModel called directly: seniority, time decay and waning
TitreDecayInputs ==
  {[Default EXCEPT !.call = "titre",
                   !.masked_infection_history = a,
                   !.infection_map_indices = StrainSeq(step),
                   !.antigenic_map_short = sm,
                   !.theta = Theta(mm[1], mm[2], tau, 1, 2, wane)] :
     a \in Masks, step \in Strains, sm \in ShortMaps,
     mm \in {<<2, 0>>, <<1, 1>>}, tau \in {-1, 1}, wane \in {-1, 0, 1}}

\* The three models called through add_multiple_infections_boost
DispatcherInputs ==
  {[Default EXCEPT !.call = "dispatch",
                   !.titre_dependent_boosting = tdb,
                   !.additional_arguments_not_null = aa,
                   !.masked_infection_history = a,
                   !.infection_map_indices = StrainSeq(step),
                   !.antigenic_map_long = lm,
                   !.theta = Theta(1, 1, tau, 1, 2, 0)] :
     tdb \in BOOLEAN, aa \in BOOLEAN, a \in Masks, step \in Strains,
     lm \in {Map(1, 0, 0), Map(1, 0, 1)}, tau \in {0, 1}}

\* The rows of the draws index..end fit the buffer from row start on.
RECURSIVE RowsOfDraws(_, _, _)
RowsOfDraws(nrows, index, end) ==
  IF index > end THEN 0 ELSE nrows[index] + RowsOfDraws(nrows, index + 1, end)

Layouts ==
  {l \in [nrows : {[j \in Draws |-> IF j = two THEN 2 ELSE 1] : two \in 0 .. NDraws},
          index : Draws, end : Draws, start : Rows] :
     /\ l.index <= l.end
     /\ l.start + RowsOfDraws(l.nrows, l.index, l.end) <= NRows}

\* FastIndividualBaseSimulator: every slot is an infection of the individual
FastInputs ==
  {[Default EXCEPT !.call = "fast",
                   !.infection_map_indices = StrainSeq(step),
                   !.infection_times = t,
                   !.sample_times = [j \in Draws |-> j + st],
                   !.theta = Theta(2, 1, tau, 0, 0, wane),
                   !.nrows_per_blood_sample = l.nrows,
                   !.index_in_samples = l.index,
                   !.end_index_in_samples = l.end,
                   !.start_index_in_data1 = l.start] :
     step \in Strains,
     t \in {[i \in Slots |-> i], [i \in Slots |-> MaxInf - 1 - i], [i \in Slots |-> 1]},
     st \in {0, 1}, tau \in {0, 1}, wane \in {0, 1},
     l \in Layouts}

\* What the caller first supplies as monitored_titres, with inputs c: zeroes, or,
\* for the inputs of the titre feedback, what an earlier use left there.
MonitoredInits(c) ==
  IF c.call = "titre" /\ c.theta.tau = 0 /\ c.theta.wane = 0
  THEN {ZeroMonitored, Alt(1, -1), Alt(-1, -1)}
  ELSE {ZeroMonitored}

\* ------------------------------------------------------------ the state

VARIABLES
  inp,                 \* the caller's input arrays and parameters
  predicted_titres,    \* caller-owned output buffer, one entry per row
  monitored_titres,    \* caller-owned buffer, one entry per infection slot
  pre_predicted,       \* predicted_titres on entry to the last kernel call
  pre_monitored,       \* monitored_titres on entry to the last kernel call
  first_result,        \* the buffers as the first kernel call left them
  initial_monitored,   \* monitored_titres as the caller first supplied it
  trace                \* the operations so far: kernel calls and buffer resets

vars == <<inp, predicted_titres, monitored_titres, pre_predicted, pre_monitored,
          first_result, initial_monitored, trace>>

KernelCalls == {"base", "strain", "titre", "dispatch", "fast"}
Last == IF trace = <<>> THEN "none" ELSE trace[Len(trace)]
NCalls == Cardinality({n \in 1 .. Len(trace) : trace[n] \in KernelCalls})

Init ==
  /\ \/ inp \in BaseInputs
     \/ inp \in StrainInputs
     \/ inp \in TitreFeedbackInputs
     \/ inp \in TitreDecayInputs
     \/ inp \in DispatcherInputs
     \/ inp \in FastInputs
  /\ monitored_titres \in MonitoredInits(inp)
  /\ predicted_titres = ZeroPredicted
  /\ pre_predicted = predicted_titres
  /\ pre_monitored = monitored_titres
  /\ first_result = [pt |-> predicted_titres, mt |-> monitored_titres]
  /\ initial_monitored = monitored_titres
  /\ trace = <<>>

\* The caller may make another call of the kernel it uses.
MayCall(name) == Len(trace) < MaxOps /\ inp.call = name

\* The bookkeeping common to every kernel call: r is what the kernel left.
Returned(name, r) ==
  /\ predicted_titres' = r.pt
  /\ monitored_titres' = r.mt
  /\ pre_predicted' = predicted_titres
  /\ pre_monitored' = monitored_titres
  /\ first_result' = IF NCalls = 0 THEN r ELSE first_result
  /\ trace' = Append(trace, name)
  /\ UNCHANGED <<inp, initial_monitored>>

CallBase ==
  /\ MayCall("base")
  /\ Returned("base", [pt |-> multiple_infection_base_boosting(predicted_titres, inp),
                       mt |-> monitored_titres])

CallStrainDependent ==
  /\ MayCall("strain")
  /\ Returned("strain", [pt |-> multiple_infection_strain_dependent(predicted_titres, inp),
                         mt |-> monitored_titres])

CallTitreDependent ==
  /\ MayCall("titre")
  /\ Returned("titre",
              multiple_infection_titre_dependent_boost(predicted_titres, monitored_titres,
                                                       inp))

CallDispatcher ==
  /\ MayCall("dispatch")
  /\ Returned("dispatch",
              add_multiple_infections_boost(predicted_titres, monitored_titres, inp))

CallFast ==
  /\ MayCall("fast")
  /\ Returned("fast", [pt |-> titre_data_fast_individual_base(predicted_titres, inp),
                       mt |-> monitored_titres])

\* The caller zeroes predicted_titres before another call.
ResetPredicted ==
  /\ Last \in KernelCalls
  /\ Len(trace) + 1 < MaxOps
  /\ predicted_titres' = ZeroPredicted
  /\ trace' = Append(trace, "reset_predicted")
  /\ UNCHANGED <<inp, monitored_titres, pre_predicted, pre_monitored, first_result,
                 initial_monitored>>

\* The caller zeroes both buffers before another call.
ResetBoth ==
  /\ Last \in KernelCalls
  /\ monitored_titres # ZeroMonitored
  /\ Len(trace) + 1 < MaxOps
  /\ predicted_titres' = ZeroPredicted
  /\ monitored_titres' = ZeroMonitored
  /\ trace' = Append(trace, "reset_both")
  /\ UNCHANGED <<inp, pre_predicted, pre_monitored, first_result, initial_monitored>>

Next ==
  \/ CallBase
  \/ CallStrainDependent
  \/ CallTitreDependent
  \/ CallDispatcher
  \/ CallFast
  \/ ResetPredicted
  \/ ResetBoth

Spec == Init /\ [][Next]_vars

\* ------------------------------------------------------------ the claims

\* The model the last kernel call ran: the dispatcher runs exactly one of three.
LastModel ==
  IF Last = "dispatch"
  THEN IF inp.titre_dependent_boosting THEN "titre"
       ELSE IF inp.additional_arguments_not_null THEN "strain" ELSE "base"
  ELSE IF Last \in KernelCalls THEN Last ELSE "none"

AllInactive == \A i \in Slots : inp.masked_infection_history[i] <= 0

\* What BaseBoostModel adds to sample k for slot i, as the contract states it.
C1_Term(i, k) ==
  inp.seniority[i] *
    (inp.theta.mu *
       inp.antigenic_map_long[inp.measurement_map_indices[k] * inp.number_strains
                                + inp.infection_map_indices[i]]
     + inp.theta.mu_short *
         inp.antigenic_map_short[inp.measurement_map_indices[k] * inp.number_strains
                                   + inp.infection_map_indices[i]] * inp.waning[i])

\* The sum of C1_Term over the active slots i < n.
RECURSIVE C1_Sum(_, _)
C1_Sum(n, k) ==
  IF n = 0 THEN 0
  ELSE C1_Sum(n - 1, k)
         + (IF inp.masked_infection_history[n - 1] > 0 THEN C1_Term(n - 1, k) ELSE 0)

\* C1: after a call of BaseBoostModel, predicted_titres[k] is its value on entry
\* plus the sum over the active slots i < max_infections of
\* seniority[i] * (mu * long[k, i] + mu_short * short[k, i] * waning[i]),
\* for every sample k < n_samples, whatever the buffer held on entry.
C1_BaseContract ==
  LastModel = "base" =>
    \A k \in Rows :
      k < inp.n_samples =>
        predicted_titres[k] = pre_predicted[k] + C1_Sum(inp.max_infections, k)

\* C1 witness: the contract's example (one active infection of strain 0, identity
\* long-term map, mu = 2, mu_short = 0) on a buffer that already holds a total.
C1_Witness ==
  /\ trace = <<"base", "base">>
  /\ inp.masked_infection_history = [i \in Slots |-> IF i = 0 THEN 1 ELSE 0]
  /\ inp.antigenic_map_long = Map(1, 0, 0)
  /\ inp.theta.mu = 2 /\ inp.theta.mu_short = 0
  /\ inp.seniority[0] = 1 /\ inp.waning[0] = 1
  /\ inp.measurement_map_indices[0] = 0
  /\ pre_predicted[0] = 2
  /\ predicted_titres[0] = 4

\* C2: when every slot is inactive, a call of BaseBoostModel,
\* StrainDependentBoostModel or TitreDependentBoostModel, direct or through the
\* dispatcher, leaves every predicted_titres[k] as it was on entry.
C2_AllInactiveUnchanged ==
  (LastModel \in {"base", "strain", "titre"} /\ AllInactive) =>
    predicted_titres = pre_predicted

\* C2 witness: the dispatcher has run the titre-dependent model with no active slot.
C2_Witness ==
  /\ Last = "dispatch"
  /\ LastModel = "titre"
  /\ AllInactive
  /\ inp.theta.mu > 0

\* C3: from zeroed buffers, a call, a reset of predicted_titres (with
\* monitored_titres zeroed too, or left as the call wrote it) and a second call
\* with the same inputs give the buffers the first call gave.
C3_NoHiddenState ==
  (/\ initial_monitored = ZeroMonitored
   /\ Len(trace) = 3
   /\ trace[1] \in KernelCalls
   /\ trace[2] \in {"reset_predicted", "reset_both"}
   /\ trace[3] = trace[1]) =>
    /\ predicted_titres = first_result.pt
    /\ monitored_titres = first_result.mt

\* C3 witness: the titre-dependent model called twice, monitored_titres left as
\* the first call wrote it, with titres monitored and predicted.
C3_Witness ==
  /\ trace = <<"titre", "reset_predicted", "titre">>
  /\ initial_monitored = ZeroMonitored
  /\ \E i \in Slots : pre_monitored[i] > 0
  /\ \E k \in Rows : predicted_titres[k] > 0
  /\ inp.theta.gradient # 0

\* The inputs with slot j made active.
Activated(j) == [inp EXCEPT !.masked_infection_history[j] = 1]

\* predicted_titres after one call of model m on zeroed buffers with inputs c.
FreshTotal(m, c) ==
  IF m = "base" THEN multiple_infection_base_boosting(ZeroPredicted, c)
  ELSE IF m = "strain" THEN multiple_infection_strain_dependent(ZeroPredicted, c)
  ELSE multiple_infection_titre_dependent_boost(ZeroPredicted, ZeroMonitored, c).pt

IsFreshTotal ==
  /\ Len(trace) = 1
  /\ LastModel \in {"base", "strain", "titre"}
  /\ initial_monitored = ZeroMonitored

\* C4 as stated: on zeroed buffers, making one more slot active never lowers any
\* predicted_titres[k], for each of the three boosting models.
C4_MonotoneInActiveSet ==
  IsFreshTotal =>
    \A j \in Slots :
      inp.masked_infection_history[j] <= 0 =>
        \A k \in Rows : FreshTotal(LastModel, Activated(j))[k] >= predicted_titres[k]

\* C4 amended: the same for BaseBoostModel and StrainDependentBoostModel, and for
\* TitreDependentBoostModel when gradient <= 0.
C4_MonotoneUnlessSuppressed ==
  (IsFreshTotal /\ (LastModel = "titre" => inp.theta.gradient <= 0)) =>
    \A j \in Slots :
      inp.masked_infection_history[j] <= 0 =>
        \A k \in Rows : FreshTotal(LastModel, Activated(j))[k] >= predicted_titres[k]

\* C4 witness: a titre-dependent total with gradient < 0 that an activation raises.
C4_Witness ==
  /\ IsFreshTotal
  /\ LastModel = "titre"
  /\ inp.theta.gradient < 0
  /\ \E j \in Slots :
       /\ inp.masked_infection_history[j] <= 0
       /\ \E i \in Slots : i > j /\ inp.masked_infection_history[i] > 0
       /\ \E k \in Rows : FreshTotal("titre", Activated(j))[k] > predicted_titres[k]

NonNegativeInputs ==
  /\ \A c \in Cells : inp.antigenic_map_long[c] >= 0 /\ inp.antigenic_map_short[c] >= 0
  /\ inp.theta.mu >= 0 /\ inp.theta.mu_short >= 0
  /\ \A g \in DOMAIN inp.mus : inp.mus[g] >= 0
  /\ \A i \in Slots : inp.waning[i] >= 0 /\ inp.seniority[i] >= 0

\* C5: with non-negative weights and boosts, every kernel call adds a
\* non-negative amount to each predicted_titres[k], and from zeroed buffers every
\* predicted_titres[k] and monitored_titres[i] stays >= 0, whatever the signs of
\* tau, gradient, boost_limit, wane and the times.
C5_NonNegativeTitres ==
  NonNegativeInputs =>
    /\ Last \in KernelCalls => \A k \in Rows : predicted_titres[k] >= pre_predicted[k]
    /\ initial_monitored = ZeroMonitored =>
         /\ \A k \in Rows : predicted_titres[k] >= 0
         /\ \A i \in Slots : monitored_titres[i] >= 0

\* C5 witness: a second titre-dependent call with tau and wane negative, where a
\* monitored titre is past the ceiling and the scaled boost would be negative
\* without its floor.
C5_Witness ==
  /\ trace = <<"titre", "titre">>
  /\ NonNegativeInputs
  /\ initial_monitored = ZeroMonitored
  /\ inp.theta.tau < 0 /\ inp.theta.wane < 0
  /\ \E i \in Slots :
       /\ inp.masked_infection_history[i] > 0
       /\ monitored_titres[i] >= inp.theta.boost_limit
       /\ 1 - inp.theta.gradient * inp.theta.boost_limit < 0
  /\ \E k \in Rows : predicted_titres[k] > pre_predicted[k]

\* max(0, x), written out for the statements of the claims.
Floor0(x) == IF x > 0 THEN x ELSE 0
Least(x, y) == IF x < y THEN x ELSE y

\* Other contents monitored_titres may have on entry to a call.
MonitoredAlternatives ==
  {ZeroMonitored, Alt(1, -1), Alt(-1, -1), [i \in Slots |-> 2]}

\* C6 as stated: TitreDependentBoostModel overwrites monitored_titres[i] of every
\* active slot, slot 0 included: whatever monitored_titres held on entry, the
\* value left in every active slot and the amounts added to predicted_titres are
\* the same.
C6_MonitoredOverwritten ==
  LastModel = "titre" =>
    \A m \in MonitoredAlternatives :
      LET other == multiple_infection_titre_dependent_boost(pre_predicted, m, inp)
      IN /\ \A i \in Slots :
              inp.masked_infection_history[i] > 0 => other.mt[i] = monitored_titres[i]
         /\ \A k \in Rows :
              other.pt[k] - pre_predicted[k] = predicted_titres[k] - pre_predicted[k]

\* The first row of draw j: start_index plus the rows of the earlier draws.
C7_DrawStart(j) ==
  inp.start_index_in_data1
    + RowsOfDraws(inp.nrows_per_blood_sample, inp.index_in_samples, j - 1)

\* The draws of the call that own row r.
C7_DrawsOf(r) ==
  {j \in Draws :
     /\ inp.index_in_samples <= j /\ j <= inp.end_index_in_samples
     /\ C7_DrawStart(j) <= r /\ r < C7_DrawStart(j) + inp.nrows_per_blood_sample[j]}

\* 1 plus the number of infections before x in the array that pass the gate of draw j.
C7_Rank(j, x) ==
  1 + Cardinality({y \in Slots : y < x /\ inp.infection_times[y] <= inp.sample_times[j]})

C7_Term(j, r, x) ==
  LET cell == inp.measurement_map_indices[r] * inp.number_strains
                + inp.infection_map_indices[x]
  IN Floor0(1 - inp.theta.tau * (C7_Rank(j, x) - 1)) *
       (inp.theta.mu * inp.antigenic_map_long[cell]
        + inp.theta.mu_short * inp.antigenic_map_short[cell] *
            Floor0(1 - inp.theta.wane * (inp.sample_times[j] - inp.infection_times[x])))

\* The sum of C7_Term over the infections x < n that pass the gate of draw j.
RECURSIVE C7_Sum(_, _, _)
C7_Sum(j, r, n) ==
  IF n = 0 THEN 0
  ELSE C7_Sum(j, r, n - 1)
         + (IF inp.infection_times[n - 1] <= inp.sample_times[j]
            THEN C7_Term(j, r, n - 1) ELSE 0)

\* C7: after a call of FastIndividualBaseSimulator every row of a draw j of the
\* call has gained the sum, over the infections with infection_time <= the
\* draw's sample_time, of seniority (by the infection's rank among those of the
\* draw) times the long-term boost plus the waned short-term boost; rows of no
\* draw of the call are unchanged.
C7_FastContract ==
  LastModel = "fast" =>
    \A r \in Rows :
      IF C7_DrawsOf(r) = {}
      THEN predicted_titres[r] = pre_predicted[r]
      ELSE \A j \in C7_DrawsOf(r) :
             predicted_titres[r] = pre_predicted[r] + C7_Sum(j, r, MaxInf)

\* C7 witness: two draws from a later row on; for the first draw an infection
\* fails the gate and a later one of the array passes it; seniority discounts.
C7_Witness ==
  /\ trace = <<"fast">>
  /\ inp.index_in_samples < inp.end_index_in_samples
  /\ inp.start_index_in_data1 > 0
  /\ inp.theta.tau > 0
  /\ \E x, y \in Slots :
       /\ x < y
       /\ inp.infection_times[x] > inp.sample_times[inp.index_in_samples]
       /\ inp.infection_times[y] <= inp.sample_times[inp.index_in_samples]
  /\ \E r \in Rows : C7_DrawsOf(r) # {} /\ predicted_titres[r] > 0

\* The inputs with gradient set to g.
WithGradient(g) == [inp EXCEPT !.theta.gradient = g]

\* C8: with boost_limit = 0 and monitored_titres[0] >= 0 on entry, every slot's
\* monitored titre is at the ceiling (>= boost_limit) and the result of
\* TitreDependentBoostModel is the result with gradient = 0.
C8_CeilingAtZero ==
  (/\ LastModel = "titre"
   /\ inp.theta.boost_limit = 0
   /\ pre_monitored[0] >= 0) =>
    /\ \A i \in Slots :
         inp.masked_infection_history[i] > 0 => monitored_titres[i] >= inp.theta.boost_limit
    /\ multiple_infection_titre_dependent_boost(pre_predicted, pre_monitored, WithGradient(0))
         = [pt |-> predicted_titres, mt |-> monitored_titres]

\* C8 witness: boost_limit = 0 and gradient # 0; one active slot's monitored titre
\* is at the limit exactly and another's is above it; titres are predicted.
C8_Witness ==
  /\ LastModel = "titre"
  /\ inp.theta.boost_limit = 0
  /\ inp.theta.gradient # 0
  /\ pre_monitored[0] >= 0
  /\ \E i, j \in Slots :
       /\ inp.masked_infection_history[i] > 0
       /\ inp.masked_infection_history[j] > 0
       /\ monitored_titres[i] = inp.theta.boost_limit
       /\ monitored_titres[j] > inp.theta.boost_limit
  /\ \E k \in Rows : predicted_titres[k] > pre_predicted[k]

\* What the active prior slot ii adds to the monitored titre of slot i.
C9_Term(i, ii) ==
  LET cell == inp.infection_map_indices[i] * inp.number_strains
                + inp.infection_map_indices[ii]
      sen == Floor0(1 - inp.theta.tau * (inp.cumu_infection_history[ii] - 1))
      L == sen * inp.theta.mu * inp.antigenic_map_long[cell]
      S == sen * inp.theta.mu_short * inp.antigenic_map_short[cell]
      s == 1 - inp.theta.gradient * Least(monitored_titres[ii], inp.theta.boost_limit)
  IN Floor0(L * s)
       + Floor0(S * s) *
           Floor0(1 - inp.theta.wane * (inp.infection_times[i] - inp.infection_times[ii]))

\* The sum of C9_Term over the active prior slots ii < n.
RECURSIVE C9_Sum(_, _)
C9_Sum(i, n) ==
  IF n = 0 THEN 0
  ELSE C9_Sum(i, n - 1)
         + (IF inp.masked_infection_history[n - 1] > 0 THEN C9_Term(i, n - 1) ELSE 0)

\* C9 as stated: after a call of TitreDependentBoostModel the monitored titre of
\* every active slot i >= 1 is the sum of the boosts of its own active prior
\* slots only: the running total starts from zero for each slot.
C9_MonitoredFromOwnScan ==
  LastModel = "titre" =>
    \A i \in Slots :
      (i >= 1 /\ inp.masked_infection_history[i] > 0) =>
        monitored_titres[i] = C9_Sum(i, i)

\* Phase A of every active slot, in increasing slot order: st = [mt, monitored_titre]
RECURSIVE TwoPassA(_, _)
TwoPassA(st, i) ==
  IF i < MaxInf
  THEN TwoPassA(IF inp.masked_infection_history[i] > 0 THEN PhaseA(st, inp, i) ELSE st,
                i + 1)
  ELSE st

\* Phase B of slot i over the samples k, k-1, .., 0
RECURSIVE PhaseBDescending(_, _, _, _)
PhaseBDescending(pt, mt, i, k) ==
  IF k >= 0 THEN PhaseBDescending(PhaseBAdd(pt, mt, inp, i, k), mt, i, k - 1) ELSE pt

\* Phase B of the active slots order[n], order[n+1], ..
RECURSIVE TwoPassB(_, _, _, _, _)
TwoPassB(pt, mt, order, n, descending) ==
  IF n <= Len(order)
  THEN TwoPassB(IF inp.masked_infection_history[order[n]] > 0
                THEN IF descending
                     THEN PhaseBDescending(pt, mt, order[n], NRows - 1)
                     ELSE PhaseB(pt, mt, inp, order[n], 0)
                ELSE pt,
                mt, order, n + 1, descending)
  ELSE pt

TwoPass(pt, mt, order, descending) ==
  LET a == TwoPassA([mt |-> mt, monitored_titre |-> 0], 0)
  IN [pt |-> TwoPassB(pt, a.mt, order, 1, descending), mt |-> a.mt]

\* The slots in increasing or decreasing order, rotated by r.
SlotOrder(r, reversed) ==
  [n \in 1 .. MaxInf |->
     LET a == (n - 1 + r) % MaxInf
     IN IF reversed THEN MaxInf - 1 - a ELSE a]

\* C10: Phase A of all slots in increasing order and only then Phase B of the
\* active slots, in any order of the slots and of the samples, leaves the
\* buffers as the interleaved loop of the source does.
C10_TwoPassEquivalent ==
  LastModel = "titre" =>
    \A r \in Slots, reversed \in BOOLEAN, descending \in BOOLEAN :
      TwoPass(pre_predicted, pre_monitored, SlotOrder(r, reversed), descending)
        = [pt |-> predicted_titres, mt |-> monitored_titres]

\* C10 witness: three active slots with distinct monitored titres that suppress
\* the boosts, so that Phase B reads a different titre for each slot.
C10_Witness ==
  /\ LastModel = "titre"
  /\ \A i \in Slots : inp.masked_infection_history[i] > 0
  /\ inp.theta.gradient > 0
  /\ \A i, j \in Slots : i # j => monitored_titres[i] # monitored_titres[j]
  /\ \E i \in Slots : 0 < monitored_titres[i] /\ monitored_titres[i] < inp.theta.boost_limit
  /\ \E k \in Rows : predicted_titres[k] > pre_predicted[k]

====
